---- MODULE Spec2Model ----
(***************************************************************************)
(* Model of dokuztas/node.py: NodeComponent, the mining-and-consensus core *)
(* of one node of the proof-of-work ledger.                                *)
(*                                                                         *)
(* The control context (the Flask request handlers) runs add_transaction,  *)
(* block_added, get_blocks, mine, create_genesis_chain and load_chain one  *)
(* at a time.  Every MiningThread started by _internal_mine runs           *)
(* Blockchain.mine concurrently with it and calls back block_found.        *)
(* dokuztas.blockchain (Blockchain, PendingBlock) and dokuztas._internals  *)
(* (MiningThread) are not part of the sources at hand: the nonce search,   *)
(* the hash and the validated append are modelled from spec.md 4.1, 4.2.   *)
(***************************************************************************)
EXTENDS Integers, Sequences, FiniteSets, TLC

VARIABLES
    miner,           \* self.miner
    difficulty,      \* self.difficulty
    chain,           \* self.chain: [created, blocks]; created = FALSE is None
    stop_mining,     \* self.stop_mining
    pending_txs,     \* self.pending_txs
    pending_blocks,  \* self.pending_blocks, each PendingBlock is its txs
    tasks,           \* the MiningThreads started so far, in start order
    notified,        \* the blocks handed to cb_notify_nodes, in call order
    nextTx,          \* the next transaction accepted (transactions are 1, 2, ...)
    appended,        \* number of blocks appended since the chain was created
    last_found,      \* the last block a peer posted to /found
    lastOp,          \* the last step taken: operation, outcome and arguments
    horizon          \* how far a run is followed: transactions and appends

vars == <<miner, difficulty, chain, stop_mining, pending_txs, pending_blocks,
          tasks, notified, nextTx, appended, last_found, lastOp,
          horizon>>

----------------------------------------------------------------------------
(* Bounds of the model *)

MaxTx == 12
MaxTasks == 3
MaxAppend == 2
MaxCandidates == 2

\* a longer run with two PendingBlocks in the queue
MaxFifoTx == 22
MaxFifoAppend == 3

\* the difficulties a node is constructed with
Difficulties == {0, 1}

(* Program constant: the batching threshold of add_transaction *)
BatchThreshold == 10

----------------------------------------------------------------------------
(* Blocks, hashes and the difficulty predicate (dokuztas.blockchain) *)

HashMod == 8

GenesisSentinel == 0

RECURSIVE SumSeq(_)
SumSeq(s) == IF s = <<>> THEN 0 ELSE Head(s) + SumSeq(Tail(s))

\* hash = H(index, transactions, previous_hash, nonce)
H(index, txs, previous_hash, nonce) ==
    (3 * index + 5 * SumSeq(txs) + 7 * previous_hash + nonce) % HashMod

\* the difficulty predicate: the hash has at least `d` zero bits at its end
Satisfies(hash, d) == hash % (2 ^ d) = 0

Block(index, txs, previous_hash, nonce) ==
    [index |-> index, txs |-> txs, previous_hash |-> previous_hash,
     nonce |-> nonce, hash |-> H(index, txs, previous_hash, nonce)]

\* Blockchain._generate_genesis: sentinel previous_hash, no transactions,
\* fixed nonce
_generate_genesis == Block(0, <<>>, GenesisSentinel, 0)

Last(s) == s[Len(s)]

\* ChainStore.append's validation of a block against the chain's last block
Links(blocks, b, d) ==
    /\ blocks # <<>>
    /\ b.previous_hash = Last(blocks).hash
    /\ Satisfies(b.hash, d)

\* the chain invariant of spec.md 3: every block after genesis links to its
\* predecessor and satisfies the difficulty
ValidChain(blocks, d) ==
    \A i \in 2..Len(blocks) :
        /\ blocks[i].previous_hash = blocks[i - 1].hash
        /\ Satisfies(blocks[i].hash, d)

\* PendingBlock.add_txs: the PendingBlock holds the transactions it is given
add_txs(txs) == txs

NoChain == [created |-> FALSE, blocks |-> <<>>]

----------------------------------------------------------------------------
(* Inputs delivered to the node *)

\* A well-formed chain of `n` blocks: genesis, then blocks without
\* transactions, each mined (first nonce that satisfies d) on its predecessor
RECURSIVE FirstNonce(_, _, _, _, _)
FirstNonce(index, txs, previous_hash, d, n) ==
    IF Satisfies(H(index, txs, previous_hash, n), d) THEN n
    ELSE FirstNonce(index, txs, previous_hash, d, n + 1)

RECURSIVE GoodChain(_, _)
GoodChain(n, d) ==
    IF n = 1 THEN <<_generate_genesis>>
    ELSE LET c == GoodChain(n - 1, d)
             p == Last(c).hash
         IN Append(c, Block(n - 1, <<>>, p, FirstNonce(n - 1, <<>>, p, d, 0)))

\* A chain whose second block does not link to its genesis
BrokenChain == <<_generate_genesis,
                 Block(1, <<>>, (_generate_genesis.hash + 1) % HashMod, 0)>>

\* The chains peers report at join time: lengths 3 and 7, and a broken one
CandidateChains(d) == {GoodChain(3, d), GoodChain(7, d), BrokenChain}

Peers == 5001..(5000 + MaxCandidates)

\* node_chains: sequences of (node, blocks) pairs, as the module-level
\* load_chain builds them
RECURSIVE SeqsOf(_, _)
SeqsOf(S, n) ==
    IF n = 0 THEN {<<>>}
    ELSE LET shorter == SeqsOf(S, n - 1)
         IN shorter \cup {Append(s, x) : s \in {t \in shorter : Len(t) = n - 1}, x \in S}

NodeChains(d) ==
    {s \in SeqsOf(Peers \X CandidateChains(d), MaxCandidates) :
        \A i, j \in 1..Len(s) : i # j => s[i][1] # s[j][1]}

\* The blocks a peer may post to /found: for the next position of the chain
\* with the right previous_hash and nonce 0 or 1 (of the two hashes one is
\* odd), with a wrong previous_hash, or once more the block `found` that a
\* peer posted last (a second notification for the same position)
ExternalBlocks(blocks, found) ==
    LET n == Len(blocks)
        right == Last(blocks).hash
    IN {Block(n, <<>>, right, k) : k \in {0, 1}}
       \cup {Block(n, <<>>, (right + 1) % HashMod, 0)}
       \cup {b \in {found} : b.index >= 1}

----------------------------------------------------------------------------
(* NodeComponent *)

\* miner_check: the error it raises, "none" when it returns
miner_check_open(m) == "none"

miner_check(m) == IF ~m THEN "MinerException" ELSE "none"

\* terminate_mining: what a mining thread reads when it polls
terminate_mining(stop) == stop

\* a MiningThread as _internal_mine starts it; cancelReq records that
\* block_added asked for its cancellation
NewTask(batch) ==
    [batch |-> batch, pc |-> "begin", nonce |-> 0, previous_hash |-> 0,
     index |-> 0, cancelReq |-> FALSE]

\* The part of the node that mine() reads and writes
NodeState(ptxs, pblocks, stop, ts) ==
    [pending_txs |-> ptxs, pending_blocks |-> pblocks, stop_mining |-> stop,
     tasks |-> ts, err |-> "none"]

\* _internal_mine: self.chain.mine is read first, which fails on None
_internal_mine(s, batch, ch) ==
    IF ~ch.created THEN [s EXCEPT !.err = "AttributeError"]
    ELSE [s EXCEPT !.tasks = Append(s.tasks, NewTask(batch))]

\* mine without its two calls of _internal_mine
mine_nothing(s, m, ch) ==
    IF miner_check(m) # "none" THEN [s EXCEPT !.err = miner_check(m)] ELSE s

\* mine
mine(s, m, ch) ==
    IF miner_check(m) # "none" THEN [s EXCEPT !.err = miner_check(m)]
    ELSE IF Len(s.pending_blocks) > 0
    THEN _internal_mine([s EXCEPT !.stop_mining = FALSE],
                        s.pending_blocks[1], ch)
    ELSE IF Len(s.pending_txs) > 0
    THEN _internal_mine([s EXCEPT !.stop_mining = FALSE, !.pending_txs = <<>>],
                        add_txs(s.pending_txs), ch)
    ELSE s

\* block_added, line 149: the block is put at the end of the chain
replace_last(blocks, b) == Append(SubSeq(blocks, 1, Len(blocks) - 1), b)

append_block(blocks, b) == Append(blocks, b)

\* block_added, lines 156-157: the head of pending_blocks is removed when
\* there is one; without the test, [0] of an empty list raises IndexError
remove_head_unchecked(s) ==
    IF Len(s.pending_blocks) > 0
    THEN [s EXCEPT !.pending_blocks = Tail(@)]
    ELSE [s EXCEPT !.err = "IndexError"]

remove_head(s) ==
    IF Len(s.pending_blocks) > 0
    THEN [s EXCEPT !.pending_blocks = Tail(@)]
    ELSE s

\* block_added, lines 150-158: what a miner does after the append
supersede_any(s, m, ch) ==
    LET h == remove_head([s EXCEPT !.stop_mining = TRUE])
    IN IF h.err # "none" THEN h ELSE mine(h, m, ch)

supersede(s, m, ch) ==
    IF m
    THEN LET h == remove_head([s EXCEPT !.stop_mining = TRUE])
         IN IF h.err # "none" THEN h ELSE mine(h, m, ch)
    ELSE s

\* create_genesis_chain without its call of _generate_genesis
genesis_chain_empty == [created |-> TRUE, blocks |-> <<>>]

\* pick_honest_chain: the blocks of the first node that answered
pick_longest_chain(node_chains) ==
    LET i == CHOOSE i \in 1..Len(node_chains) :
                 \A j \in 1..Len(node_chains) :
                     Len(node_chains[j][2]) <= Len(node_chains[i][2])
    IN [created |-> TRUE, blocks |-> node_chains[i][2]]

pick_honest_chain(node_chains) ==
    [created |-> TRUE, blocks |-> node_chains[1][2]]

\* create_genesis_chain, as a value
genesis_chain == [created |-> TRUE, blocks |-> <<_generate_genesis>>]

NoBlock == [index |-> -1, txs |-> <<>>, previous_hash |-> 0, nonce |-> 0,
            hash |-> 0]

Op(op, err, block, cands) ==
    [op |-> op, err |-> err, block |-> block, cands |-> cands]

Active(t) == t.pc \in {"begin", "search"}

\* NodeComponent(miner, difficulty) as its constructor leaves it
Constructed ==
    /\ miner \in BOOLEAN
    /\ difficulty \in Difficulties
    /\ chain = NoChain
    /\ stop_mining = FALSE
    /\ pending_txs = <<>>
    /\ pending_blocks = <<>>
    /\ tasks = <<>>
    /\ notified = <<>>
    /\ nextTx = 1
    /\ appended = 0
    /\ last_found = NoBlock
    /\ lastOp = Op("init", "none", NoBlock, <<>>)

Init == Constructed /\ horizon = [tx |-> MaxTx, append |-> MaxAppend]

\* create_genesis_chain, called at start-up by the first node of the network
create_genesis_chain ==
    /\ ~chain.created
    /\ chain' = genesis_chain
    /\ lastOp' = Op("create_genesis_chain", "none", NoBlock, <<>>)
    /\ UNCHANGED <<miner, difficulty, stop_mining, pending_txs, pending_blocks,
                   tasks, notified, nextTx, appended, last_found, horizon>>

\* load_chain, called once at start-up with what the other nodes answered
load_chain ==
    /\ ~chain.created
    /\ \E node_chains \in NodeChains(difficulty) :
        /\ chain' = IF Len(node_chains) = 0 THEN genesis_chain
                    ELSE pick_honest_chain(node_chains)
        /\ lastOp' = Op("load_chain", "none", NoBlock, node_chains)
    /\ UNCHANGED <<miner, difficulty, stop_mining, pending_txs, pending_blocks,
                   tasks, notified, nextTx, appended, last_found, horizon>>

\* get_blocks
get_blocks ==
    /\ lastOp' = Op("get_blocks",
                    IF ~chain.created THEN "ChainNotCreatedException" ELSE "none",
                    NoBlock, <<>>)
    /\ UNCHANGED <<miner, difficulty, chain, stop_mining, pending_txs,
                   pending_blocks, tasks, notified, nextTx, appended, last_found, horizon>>

\* add_transaction
add_transaction ==
    /\ nextTx <= horizon.tx
    /\ LET tx == nextTx
           txs == Append(pending_txs, tx)
           batched == NodeState(<<>>, Append(pending_blocks, add_txs(txs)),
                                stop_mining, tasks)
           r == IF miner_check(miner) # "none"
                THEN [NodeState(pending_txs, pending_blocks, stop_mining, tasks)
                        EXCEPT !.err = miner_check(miner)]
                ELSE IF Len(txs) > BatchThreshold
                THEN IF Len(batched.pending_blocks) = 1
                     THEN mine(batched, miner, chain)
                     ELSE batched
                ELSE NodeState(txs, pending_blocks, stop_mining, tasks)
       IN /\ Len(r.tasks) <= MaxTasks
          /\ pending_txs' = r.pending_txs
          /\ pending_blocks' = r.pending_blocks
          /\ stop_mining' = r.stop_mining
          /\ tasks' = r.tasks
          /\ nextTx' = IF r.err = "MinerException" THEN nextTx ELSE nextTx + 1
          /\ lastOp' = Op("add_transaction", r.err, NoBlock, <<>>)
    /\ UNCHANGED <<miner, difficulty, chain, notified, appended, last_found, horizon>>

\* mine, called from outside the class.  On a miner the request handlers
\* reach mine only through add_transaction, block_added and block_found, so
\* the call from outside is the one of a node that is no miner.
mine_direct ==
    /\ ~miner
    /\ LET r == mine(NodeState(pending_txs, pending_blocks, stop_mining, tasks),
                     miner, chain)
       IN /\ Len(r.tasks) <= MaxTasks
          /\ pending_txs' = r.pending_txs
          /\ pending_blocks' = r.pending_blocks
          /\ stop_mining' = r.stop_mining
          /\ tasks' = r.tasks
          /\ lastOp' = Op("mine", r.err, NoBlock, <<>>)
    /\ UNCHANGED <<miner, difficulty, chain, notified, nextTx, appended, last_found, horizon>>

\* block_added while self.chain is None: self.chain.blocks fails at once
block_added_none ==
    /\ ~chain.created
    /\ lastOp' = Op("block_added", "AttributeError", NoBlock, <<>>)
    /\ UNCHANGED <<miner, difficulty, chain, stop_mining, pending_txs,
                   pending_blocks, tasks, notified, nextTx, appended, last_found, horizon>>

\* block_added: the block a peer posted to /found
block_added ==
       /\ chain.created
       /\ appended < horizon.append
       /\ \E new_block \in ExternalBlocks(chain.blocks, last_found) :
            LET asked == [i \in 1..Len(tasks) |->
                             IF Active(tasks[i]) /\ miner
                             THEN [tasks[i] EXCEPT !.cancelReq = TRUE]
                             ELSE tasks[i]]
                r == supersede(NodeState(pending_txs, pending_blocks,
                                         stop_mining, asked),
                               miner, chain)
            IN /\ Len(r.tasks) <= MaxTasks
               /\ chain' = [chain EXCEPT !.blocks = append_block(@, new_block)]
               /\ appended' = appended + 1
               /\ pending_txs' = r.pending_txs
               /\ pending_blocks' = r.pending_blocks
               /\ stop_mining' = r.stop_mining
               /\ tasks' = r.tasks
               /\ lastOp' = Op("block_added", r.err, new_block, <<>>)
               /\ last_found' = new_block
       /\ UNCHANGED <<miner, difficulty, notified, nextTx, horizon>>


----------------------------------------------------------------------------
(* A MiningThread running Blockchain.mine(pending_block, terminate_mining, *)
(* block_found), one step at a time                                         *)

TaskOp == Op("task", "none", NoBlock, <<>>)

\* the search starts on the chain's last block: previous_hash and index
MineBegin(i) ==
    /\ tasks[i].pc = "begin"
    /\ tasks' = [tasks EXCEPT ![i].pc = "search",
                              ![i].previous_hash = Last(chain.blocks).hash,
                              ![i].index = Len(chain.blocks)]
    /\ lastOp' = TaskOp
    /\ UNCHANGED <<miner, difficulty, chain, stop_mining, pending_txs,
                   pending_blocks, notified, nextTx, appended, last_found, horizon>>

\* a thread that ended keeps no local state
Ended(how) ==
    [batch |-> <<>>, pc |-> how, nonce |-> 0, previous_hash |-> 0,
     index |-> 0, cancelReq |-> FALSE]

\* one round of the search: terminate_mining is polled first and ends the
\* search when it is set; otherwise one nonce is evaluated, and the first
\* hash that satisfies the difficulty gives the block, which goes through the
\* validated append: a block that no longer links to the chain's last block
\* is rejected and discarded
MineStep(i) ==
    /\ tasks[i].pc = "search"
    /\ LET t == tasks[i]
           b == Block(t.index, t.batch, t.previous_hash, t.nonce)
       IN IF terminate_mining(stop_mining)
          THEN /\ tasks' = [tasks EXCEPT ![i] = Ended("cancelled")]
               /\ UNCHANGED <<chain, appended>>
          ELSE IF ~Satisfies(b.hash, difficulty)
          THEN /\ tasks' = [tasks EXCEPT ![i].nonce = @ + 1]
               /\ UNCHANGED <<chain, appended>>
          ELSE IF Links(chain.blocks, b, difficulty)
          THEN /\ appended < horizon.append
               /\ chain' = [chain EXCEPT !.blocks = Append(@, b)]
               /\ appended' = appended + 1
               /\ tasks' = [tasks EXCEPT ![i].pc = "block_found"]
          ELSE /\ tasks' = [tasks EXCEPT ![i] = Ended("rejected")]
               /\ UNCHANGED <<chain, appended>>
    /\ lastOp' = TaskOp
    /\ UNCHANGED <<miner, difficulty, stop_mining, pending_txs, pending_blocks,
                   notified, nextTx, last_found, horizon>>

\* block_found up to and including its call of mine
block_found(i) ==
    /\ tasks[i].pc = "block_found"
    /\ LET stepped == [tasks EXCEPT ![i].pc = "notify"]
           s == IF Len(pending_blocks) > 0
                THEN NodeState(pending_txs, Tail(pending_blocks), stop_mining,
                               stepped)
                ELSE NodeState(<<>>, pending_blocks, stop_mining, stepped)
           r == mine(s, miner, chain)
       IN /\ Len(r.tasks) <= MaxTasks
          /\ pending_txs' = r.pending_txs
          /\ pending_blocks' = r.pending_blocks
          /\ stop_mining' = r.stop_mining
          /\ tasks' = r.tasks
    /\ lastOp' = TaskOp
    /\ UNCHANGED <<miner, difficulty, chain, notified, nextTx, appended, last_found, horizon>>

\* block_found runs on the mining thread while the request handlers run on
\* theirs, and nothing locks the queues: the handlers can run between its
\* statements.  Lines 98-101, the head of pending_blocks is removed, or the
\* pending transactions are dropped
block_found_dequeue(i) ==
    /\ tasks[i].pc = "block_found"
    /\ IF Len(pending_blocks) > 0
       THEN pending_blocks' = Tail(pending_blocks) /\ UNCHANGED pending_txs
       ELSE pending_txs' = <<>> /\ UNCHANGED pending_blocks
    /\ tasks' = [tasks EXCEPT ![i].pc = "mine"]
    /\ lastOp' = TaskOp
    /\ UNCHANGED <<miner, difficulty, chain, stop_mining, notified, nextTx,
                   appended, last_found, horizon>>

\* line 102, the call of mine
block_found_mine(i) ==
    /\ tasks[i].pc = "mine"
    /\ LET r == mine(NodeState(pending_txs, pending_blocks, stop_mining,
                               [tasks EXCEPT ![i].pc = "notify"]),
                     miner, chain)
       IN /\ Len(r.tasks) <= MaxTasks
          /\ pending_txs' = r.pending_txs
          /\ pending_blocks' = r.pending_blocks
          /\ stop_mining' = r.stop_mining
          /\ tasks' = r.tasks
    /\ lastOp' = TaskOp
    /\ UNCHANGED <<miner, difficulty, chain, notified, nextTx, appended, last_found, horizon>>

\* the end of block_found: cb_notify_nodes gets the chain's last block
NotifyNodes(i) ==
    /\ tasks[i].pc = "notify"
    /\ notified' = Append(notified, Last(chain.blocks))
    /\ tasks' = [tasks EXCEPT ![i] = Ended("done")]
    /\ lastOp' = TaskOp
    /\ UNCHANGED <<miner, difficulty, chain, stop_mining, pending_txs,
                   pending_blocks, nextTx, appended, last_found, horizon>>

Next ==
    \/ create_genesis_chain
    \/ load_chain
    \/ get_blocks
    \/ add_transaction
    \/ mine_direct
    \/ block_added_none
    \/ block_added
    \/ \E i \in 1..Len(tasks) : MineBegin(i)
    \/ \E i \in 1..Len(tasks) : MineStep(i)
    \/ \E i \in 1..Len(tasks) : block_found(i)
    \/ \E i \in 1..Len(tasks) : NotifyNodes(i)

Spec == Init /\ [][Next]_vars

\* The node until its chain exists: every step taken while self.chain is None
NextJoin ==
    \/ create_genesis_chain
    \/ load_chain
    \/ ~chain.created /\ get_blocks
    \/ ~chain.created /\ add_transaction
    \/ ~chain.created /\ mine_direct
    \/ block_added_none

SpecJoin == Init /\ [][NextJoin]_vars

\* A node that is no miner: it never starts a mining thread, so the
\* operations of the control context are all its steps
InitFollower == Init /\ ~miner

NextFollower ==
    \/ create_genesis_chain
    \/ load_chain
    \/ get_blocks
    \/ add_transaction
    \/ mine_direct
    \/ block_added_none
    \/ block_added

SpecFollower == InitFollower /\ [][NextFollower]_vars

\* A miner whose chain exists before it takes transactions, with its mining
\* threads scheduled fairly: a MiningThread is a thread of its own, so each
\* of its steps that stays possible is taken at some time.  What the peers
\* and the clients send is under no fairness.
InitLive == Init /\ miner

ThreadStep(i) ==
    /\ i \in 1..Len(tasks)
    /\ (MineBegin(i) \/ MineStep(i) \/ block_found(i) \/ NotifyNodes(i))

NextLive ==
    \/ create_genesis_chain
    \/ chain.created /\ add_transaction
    \/ block_added
    \/ \E i \in 1..Len(tasks) : MineBegin(i)
    \/ \E i \in 1..Len(tasks) : MineStep(i)
    \/ \E i \in 1..Len(tasks) : block_found(i)
    \/ \E i \in 1..Len(tasks) : NotifyNodes(i)

SpecLive ==
    /\ InitLive
    /\ [][NextLive]_vars
    /\ \A i \in 1..MaxTasks : WF_vars(ThreadStep(i))

----------------------------------------------------------------------------
(* The claims *)

ActiveTasks == {i \in 1..Len(tasks) : Active(tasks[i])}

\* C1: in every reachable state of a miner at most one mining task is
\* active (started, and neither finished nor stopped by cancellation).
C1_AtMostOneMiningTask == Cardinality(ActiveTasks) <= 1

\* C2: on a miner with a chain, no mining so far and ten pending
\* transactions, the add_transaction that accepts the 11th transaction makes
\* one PendingBlock of the first ten in order, leaves the 11th alone in
\* pending_txs and starts exactly one mining task.
C2_EleventhBatchesFirstTen ==
    [][(/\ lastOp'.op = "add_transaction"
        /\ miner /\ chain.created
        /\ tasks = <<>> /\ pending_blocks = <<>>
        /\ nextTx = BatchThreshold + 1
        /\ Len(pending_txs) = BatchThreshold)
       => (/\ pending_blocks' = <<SubSeq(pending_txs, 1, BatchThreshold)>>
           /\ pending_txs' = <<nextTx>>
           /\ Len(tasks') = 1)]_vars

\* C3: on a miner with difficulty 0, a genesis chain of length 1 and empty
\* queues, the tenth add_transaction leaves a PendingBlock in the queue and a
\* mining task started on it (the task that then brings the chain to length 2).
C3_TenthStartsMining ==
    [][(/\ lastOp'.op = "add_transaction"
        /\ miner /\ difficulty = 0
        /\ chain = genesis_chain
        /\ tasks = <<>> /\ pending_blocks = <<>>
        /\ nextTx = BatchThreshold
        /\ Len(pending_txs) = BatchThreshold - 1)
       => (/\ Len(pending_blocks') = 1
           /\ Len(tasks') = 1
           /\ tasks'[1].batch = pending_blocks'[1])]_vars

\* C4: a chain that is initialized and in which every block after genesis
\* links to its predecessor and satisfies the difficulty stays so under
\* every step: whatever block_added receives and whatever mining completes.
C4_ChainStaysLinked ==
    [][(chain.created /\ ValidChain(chain.blocks, difficulty))
       => ValidChain(chain'.blocks, difficulty)]_vars

\* C5: block_added with a block whose previous_hash is not the hash of the
\* chain's last block, or whose hash does not satisfy the difficulty, fails
\* with a linkage error and leaves the chain as it was.
C5_BadBlockRejected ==
    [][(/\ lastOp'.op = "block_added"
        /\ chain.created
        /\ ~Links(chain.blocks, lastOp'.block, difficulty))
       => (lastOp'.err = "LinkageError" /\ chain' = chain)]_vars

\* C6: a mining task whose cancellation block_added has requested stops at
\* its next nonce check: the only step it takes from then on ends it as
\* cancelled, so it appends no block and never calls block_found.
C6_CancelledTaskStops ==
    [][\A i \in 1..Len(tasks) :
          (/\ tasks[i].cancelReq
           /\ tasks[i].pc = "search"
           /\ tasks'[i] # tasks[i])
          => tasks'[i].pc = "cancelled"]_vars

\* C7: on a miner, a block_added for the chain position of the block that
\* the previous notification delivered removes no PendingBlock, moves no
\* pending transaction and raises nothing.
C7_SecondNotificationNoOp ==
    [][(/\ lastOp'.op = "block_added"
        /\ miner /\ chain.created
        /\ last_found.index >= 1
        /\ lastOp'.block.index = last_found.index)
       => (/\ lastOp'.err = "none"
           /\ pending_txs' = pending_txs
           /\ pending_blocks' = pending_blocks)]_vars

\* C8: add_transaction and mine on a node that is no miner raise
\* MinerException and leave chain, pending_txs, pending_blocks, stop_mining
\* and the mining tasks as they were.
C8_RoleError ==
    [][(~miner /\ lastOp'.op \in {"add_transaction", "mine"})
       => (/\ lastOp'.err = "MinerException"
           /\ UNCHANGED <<chain, pending_txs, pending_blocks, stop_mining,
                          tasks>>)]_vars

\* C8 witness: a follower with a chain whose add_transaction was refused
C8_Witness ==
    /\ ~miner
    /\ chain.created
    /\ lastOp.op = "add_transaction"
    /\ lastOp.err = "MinerException"
    /\ pending_txs = <<>>

\* C9: get_blocks and block_added while the chain is not created raise
\* ChainNotCreatedException and leave the node as it was.
C9_ChainNotCreated ==
    [][(~chain.created /\ lastOp'.op \in {"get_blocks", "block_added"})
       => (/\ lastOp'.err = "ChainNotCreatedException"
           /\ UNCHANGED <<chain, pending_txs, pending_blocks, stop_mining,
                          tasks>>)]_vars

\* C10: load_chain with a non-empty node_chains makes the chain the blocks
\* of the first entry, whatever the lengths and the validity of the entries.
C10_FirstCandidate ==
    [][(lastOp'.op = "load_chain" /\ Len(lastOp'.cands) > 0)
       => (chain'.created /\ chain'.blocks = lastOp'.cands[1][2])]_vars

\* C10 witness: candidates of lengths 3 and 7, in this order: the chain of
\* length 3 is the node's chain
C10_Witness ==
    /\ lastOp.op = "load_chain"
    /\ Len(lastOp.cands) = 2
    /\ Len(lastOp.cands[1][2]) = 3
    /\ Len(lastOp.cands[2][2]) = 7
    /\ Len(chain.blocks) = 3

\* C11: load_chain with an empty node_chains creates the genesis chain: one
\* block, with the sentinel previous_hash and no transactions.
C11_EmptyCandidatesGenesis ==
    [][(lastOp'.op = "load_chain" /\ lastOp'.cands = <<>>)
       => (/\ chain'.created
           /\ Len(chain'.blocks) = 1
           /\ chain'.blocks[1].previous_hash = GenesisSentinel
           /\ chain'.blocks[1].txs = <<>>)]_vars

\* C11 witness: a node whose load_chain got no candidate and has its genesis
C11_Witness ==
    /\ lastOp.op = "load_chain"
    /\ lastOp.cands = <<>>
    /\ chain.created
    /\ Len(chain.blocks) = 1

\* C12: block_added on a miner with a chain and an empty pending_blocks
\* raises nothing and leaves pending_blocks empty, however many such
\* notifications came before.
C12_EmptyQueueNoOp ==
    [][(/\ lastOp'.op = "block_added"
        /\ miner /\ chain.created
        /\ pending_blocks = <<>>)
       => (lastOp'.err = "none" /\ pending_blocks' = <<>>)]_vars

\* C12 witness: a miner that never mined, after its second notification in
\* a row with an empty queue
C12_Witness ==
    /\ miner
    /\ lastOp.op = "block_added"
    /\ lastOp.err = "none"
    /\ appended >= 2
    /\ tasks = <<>>
    /\ nextTx = 1
    /\ pending_blocks = <<>>

\* where a transaction is held: pending, queued, or in the batch of a thread
Held(x, ptxs, pblocks, ts) ==
    \/ \E k \in 1..Len(ptxs) : ptxs[k] = x
    \/ \E j \in 1..Len(pblocks) : \E k \in 1..Len(pblocks[j]) : pblocks[j][k] = x
    \/ \E i \in 1..Len(ts) : \E k \in 1..Len(ts[i].batch) : ts[i].batch[k] = x

\* C13: no accepted transaction is lost; in particular the transactions
\* that are pending when a mining task completes (block_found) are still
\* pending, queued or handed to a mining task afterwards.
C13_PendingSurviveBlockFound ==
    [][\A i \in 1..Len(tasks) :
          (tasks[i].pc = "block_found" /\ tasks'[i].pc = "notify")
          => \A k \in 1..Len(pending_txs) :
                Held(pending_txs[k], pending_txs', pending_blocks', tasks')]_vars

\* C15: the entry that block_found removes from pending_blocks is the
\* PendingBlock its task mined; a task that mined an ad-hoc batch removes
\* none.
C15_RemovesOwnBlock ==
    [][\A i \in 1..Len(tasks) :
          (/\ tasks[i].pc = "block_found"
           /\ tasks'[i].pc = "notify"
           /\ pending_blocks' # pending_blocks)
          => (/\ pending_blocks[1] = tasks[i].batch
              /\ pending_blocks' = Tail(pending_blocks))]_vars

\* C16: the notify callback of a mining task gets the very block this task
\* appended to the chain, whatever was appended in between.
C16_NotifiesOwnBlock ==
    [][\A i \in 1..Len(tasks) :
          (tasks[i].pc = "notify" /\ tasks'[i].pc = "done")
          => notified' = Append(notified,
                                Block(tasks[i].index, tasks[i].batch,
                                      tasks[i].previous_hash, tasks[i].nonce))]_vars

\* C19: block_added on a node that is no miner, with a chain, appends the
\* block and leaves pending_txs, pending_blocks, stop_mining and the mining
\* tasks alone, without a role error.
C19_FollowerAppendsOnly ==
    [][(lastOp'.op = "block_added" /\ ~miner /\ chain.created)
       => (/\ chain'.blocks = Append(chain.blocks, lastOp'.block)
           /\ lastOp'.err = "none"
           /\ UNCHANGED <<pending_txs, pending_blocks, stop_mining, tasks>>)]_vars

\* C19 witness: a follower whose chain grew by the block a peer posted
C19_Witness ==
    /\ ~miner
    /\ lastOp.op = "block_added"
    /\ lastOp.err = "none"
    /\ appended >= 1
    /\ Last(chain.blocks) = lastOp.block
    /\ ~stop_mining

IsPrefix(s, t) == Len(s) <= Len(t) /\ SubSeq(t, 1, Len(s)) = s

\* C20: once the chain exists it only grows at its end: the chain before a
\* step is a prefix of the chain after it.
C20_AppendOnly ==
    [][chain.created
       => (chain'.created /\ IsPrefix(chain.blocks, chain'.blocks))]_vars

\* C20 witness: a chain that grew by a block from a peer and by a block
\* mined locally
C20_Witness ==
    /\ chain.created
    /\ appended >= 2
    /\ last_found.index >= 1
    /\ \E i \in 1..Len(chain.blocks) : chain.blocks[i].txs # <<>>


\* The same miner with the two parts of block_found as steps of their own,
\* so that add_transaction and block_added can run between them
NextRace ==
    \/ create_genesis_chain
    \/ chain.created /\ add_transaction
    \/ block_added
    \/ \E i \in 1..Len(tasks) : MineBegin(i)
    \/ \E i \in 1..Len(tasks) : MineStep(i)
    \/ \E i \in 1..Len(tasks) : block_found_dequeue(i)
    \/ \E i \in 1..Len(tasks) : block_found_mine(i)
    \/ \E i \in 1..Len(tasks) : NotifyNodes(i)

SpecRace == InitLive /\ [][NextRace]_vars

\* the transactions of two blocks of the chain are disjoint
NoTxTwice(blocks) ==
    \A i, j \in 1..Len(blocks) :
        i # j => \A x \in 1..Len(blocks[i].txs), y \in 1..Len(blocks[j].txs) :
                    blocks[i].txs[x] # blocks[j].txs[y]

\* C14: whatever runs between the statements of block_found, a thread is
\* never started on a batch that a thread still at work was started on, and
\* no transaction is in two blocks of the chain
C14_NoBatchTwice ==
    [][/\ \A j \in (Len(tasks) + 1)..Len(tasks') :
            \A i \in 1..Len(tasks) : tasks[i].batch # tasks'[j].batch
       /\ NoTxTwice(chain'.blocks)]_vars

\* A miner followed for longer, until two PendingBlocks are queued; a peer
\* posts its block while both wait
InitFifo ==
    /\ Constructed /\ miner
    /\ horizon = [tx |-> MaxFifoTx, append |-> MaxFifoAppend]

NextFifo ==
    \/ create_genesis_chain
    \/ chain.created /\ add_transaction
    \/ Len(pending_blocks) > 1 /\ block_added
    \/ \E i \in 1..Len(tasks) : MineBegin(i)
    \/ \E i \in 1..Len(tasks) : MineStep(i)
    \/ \E i \in 1..Len(tasks) : block_found(i)
    \/ \E i \in 1..Len(tasks) : NotifyNodes(i)

SpecFifo == InitFifo /\ [][NextFifo]_vars

\* the blocks mined from queued PendingBlocks are in the chain in the order
\* in which the PendingBlocks were queued, which is the order of their
\* transactions
MinedInQueueOrder(blocks) ==
    \A i, j \in 1..Len(blocks) :
        (/\ i < j
         /\ Len(blocks[i].txs) > BatchThreshold
         /\ Len(blocks[j].txs) > BatchThreshold)
            => blocks[i].txs[1] < blocks[j].txs[1]

\* C18: a thread started while pending_blocks is not empty is started on its
\* head, and the blocks mined from PendingBlocks are in the chain in the
\* order in which the PendingBlocks were queued
C18_Fifo ==
    [][/\ \A j \in (Len(tasks) + 1)..Len(tasks') :
            pending_blocks' # <<>> => tasks'[j].batch = pending_blocks'[1]
       /\ MinedInQueueOrder(chain'.blocks)]_vars

\* The PendingBlocks add_transaction can queue: BatchThreshold + 1
\* transactions in the order of their submission
QueuedBatches ==
    {[j \in 1..(BatchThreshold + 1) |-> k + j - 1] :
        k \in 1..(MaxTx - BatchThreshold)}

InQueue(p) == \E j \in 1..Len(pending_blocks) : pending_blocks[j] = p

\* A step of a mining thread that the bounds of the model do not let it
\* take: the append of a block at MaxAppend, the start of the next thread at
\* MaxTasks.  Behaviours are followed up to there.
Capped ==
    \E i \in 1..Len(tasks) :
        /\ tasks[i].pc \in {"search", "block_found"}
        /\ ~ENABLED ThreadStep(i)

====
